---- MODULE Spec2Model ----
(***************************************************************************)
(* Model of mdb/loginfo.go (keyhole): LogInfo.Analyze, LogInfo.Parse, the  *)
(* per-line filter extraction and canonicalization, the shape aggregator   *)
(* (opsMap), the slow-op list (LogInfo.SlowOps), the gob cache artifact    *)
(* and the report projection.                                              *)
(*                                                                         *)
(* Text is modelled as TLA+ strings, character by character.  Go's 0-based *)
(* byte offsets are kept: Slice(s, a, b) is Go's s[a:b] and Index returns  *)
(* -1 when the substring is absent.  All text is ASCII, so byte offsets    *)
(* and rune counts coincide.                                               *)
(***************************************************************************)
EXTENDS Integers, Sequences, FiniteSets, TLC

(***************************************************************************)
(* Go string primitives                                                    *)
(***************************************************************************)
Min(S) == CHOOSE x \in S : \A y \in S : x <= y

Max(S) == CHOOSE x \in S : \A y \in S : x >= y

\* s[a:b]; offsets outside the text are clamped (the places where Go would
\* panic on them are guarded where they are used)
Slice(s, a, b) ==
    LET lo == IF a < 0 THEN 0 ELSE a
        hi == IF b > Len(s) THEN Len(s) ELSE b
    IN  IF lo >= hi THEN "" ELSE SubSeq(s, lo + 1, hi)

\* s[a:]
From(s, a) == Slice(s, a, Len(s))

\* s[i] as a one-character string, "" outside the text
At(s, i) == Slice(s, i, i + 1)

\* offsets at which sub occurs in s
Occurrences(s, sub) ==
    {i \in 0..(Len(s) - Len(sub)) : Slice(s, i, i + Len(sub)) = sub}

\* strings.Index
Index(s, sub) ==
    IF Occurrences(s, sub) = {} THEN -1 ELSE Min(Occurrences(s, sub))

\* strings.LastIndex
LastIndex(s, sub) ==
    IF Occurrences(s, sub) = {} THEN -1 ELSE Max(Occurrences(s, sub))

\* strings.HasSuffix
HasSuffix(s, suf) ==
    Len(s) >= Len(suf) /\ From(s, Len(s) - Len(suf)) = suf

\* strings.HasPrefix
HasPrefix(s, pre) ==
    Len(s) >= Len(pre) /\ Slice(s, 0, Len(pre)) = pre

\* strings.ReplaceAll / strings.Replace(s, old, new, -1), old non-empty
RECURSIVE ReplaceAll(_, _, _)
ReplaceAll(s, old, new) ==
    IF Index(s, old) < 0 THEN s
    ELSE Slice(s, 0, Index(s, old)) \o new
            \o ReplaceAll(From(s, Index(s, old) + Len(old)), old, new)

\* strings.Trim(s, " ")
RECURSIVE TrimSpaces(_)
TrimSpaces(s) ==
    IF Len(s) = 0 THEN s
    ELSE IF At(s, 0) = " " THEN TrimSpaces(From(s, 1))
    ELSE IF At(s, Len(s) - 1) = " " THEN TrimSpaces(Slice(s, 0, Len(s) - 1))
    ELSE s

Digits == {"0", "1", "2", "3", "4", "5", "6", "7", "8", "9"}

Letters ==
    {"a", "b", "c", "d", "e", "f", "g", "h", "i", "j", "k", "l", "m",
     "n", "o", "p", "q", "r", "s", "t", "u", "v", "w", "x", "y", "z",
     "A", "B", "C", "D", "E", "F", "G", "H", "I", "J", "K", "L", "M",
     "N", "O", "P", "Q", "R", "S", "T", "U", "V", "W", "X", "Y", "Z"}

\* regexp classes \d, \w, \s, \S on one character
IsDigit(c) == c \in Digits

IsWord(c) == c \in Letters \cup Digits \cup {"_"}

IsSpace(c) == c \in {" ", "\t", "\n", "\r", "\f"}

IsNonSpace(c) == Len(c) = 1 /\ ~IsSpace(c)

\* length of the longest run of characters of s from offset i that are all
\* in the class whose members are the characters of the set-valued test
RECURSIVE RunWord(_, _)
RunWord(s, i) ==
    IF i < Len(s) /\ IsWord(At(s, i)) THEN 1 + RunWord(s, i + 1) ELSE 0

RECURSIVE RunDigit(_, _)
RunDigit(s, i) ==
    IF i < Len(s) /\ IsDigit(At(s, i)) THEN 1 + RunDigit(s, i + 1) ELSE 0

RECURSIVE RunSpace(_, _)
RunSpace(s, i) ==
    IF i < Len(s) /\ IsSpace(At(s, i)) THEN 1 + RunSpace(s, i + 1) ELSE 0

RECURSIVE RunNonSpace(_, _)
RunNonSpace(s, i) ==
    IF i < Len(s) /\ IsNonSpace(At(s, i)) THEN 1 + RunNonSpace(s, i + 1) ELSE 0

DigitVal(c) ==
    CASE c = "0" -> 0 [] c = "1" -> 1 [] c = "2" -> 2 [] c = "3" -> 3
      [] c = "4" -> 4 [] c = "5" -> 5 [] c = "6" -> 6 [] c = "7" -> 7
      [] c = "8" -> 8 [] c = "9" -> 9

\* strconv.Atoi on a string of digits (the line pattern guarantees \d+)
RECURSIVE Atoi(_)
Atoi(s) ==
    IF Len(s) = 0 THEN 0
    ELSE 10 * Atoi(Slice(s, 0, Len(s) - 1)) + DigitVal(At(s, Len(s) - 1))

(***************************************************************************)
(* Line Matcher: the operation-record pattern of Parse                     *)
(*   ^\S+ \S+\s+(\w+)\s+\[\w+\] (\w+) (\S+) \S+: <body> (\d+)ms$           *)
(* where <body> is the greedy any-text group.                              *)
(* Every token of the pattern is delimited by a character outside its own  *)
(* class, so the match is unique and can be scanned left to right; the     *)
(* greedy body ends at the last space of the line.                        *)
(***************************************************************************)
NoMatch == [ok |-> FALSE, op |-> "", ns |-> "", body |-> "", ms |-> ""]

\* offset just past a token of n >= 1 characters at offset p; -1 when the
\* token is missing or when p already is -1
Token(p, n) == IF p >= 0 /\ n >= 1 THEN p + n ELSE -1

\* \S+, \s+ and \w+ at offset p
NonSpaces(s, p) == Token(p, RunNonSpace(s, p))

SpacesAt(s, p) == Token(p, RunSpace(s, p))

Word(s, p) == Token(p, RunWord(s, p))

\* the literal text t at offset p
Literal(s, p, t) ==
    IF p >= 0 /\ Slice(s, p, p + Len(t)) = t THEN p + Len(t) ELSE -1

\* the tail "<body> (\d+)ms$" on the text t that follows the label token;
\* sp is the offset of the last space of t
MatchTailAt(t, op, ns, sp) ==
    IF HasSuffix(t, "ms") /\ sp >= 0 /\ Len(t) - 2 - (sp + 1) >= 1
       /\ RunDigit(Slice(t, sp + 1, Len(t) - 2), 0) = Len(t) - 2 - (sp + 1)
    THEN [ok |-> TRUE, op |-> op, ns |-> ns,
          body |-> Slice(t, 0, sp), ms |-> Slice(t, sp + 1, Len(t) - 2)]
    ELSE NoMatch

MatchTail(t, op, ns) == MatchTailAt(t, op, ns, LastIndex(t, " "))

\* "\S+: " at offset pLb, after the operation at p and the namespace at pNs;
\* e is the offset just past the label token
MatchLabel(s, p, pNs, pLb, e) ==
    IF pLb >= 0 /\ e >= pLb + 2 /\ At(s, e - 1) = ":" /\ At(s, e) = " "
    THEN MatchTail(From(s, e + 1), Slice(s, p, pNs - 1), Slice(s, pNs, pLb - 1))
    ELSE NoMatch

\* "(\S+) " at offset pNs
MatchNs(s, p, pNs, pLb) == MatchLabel(s, p, pNs, pLb, NonSpaces(s, pLb))

\* "(\w+) (\S+) \S+: " from offset p (just after the "[ctx] " tag)
MatchOp(s, p, pNs) == MatchNs(s, p, pNs, Literal(s, NonSpaces(s, pNs), " "))

MatchOpNs(s, p) == MatchOp(s, p, Literal(s, Word(s, p), " "))

\* "^\S+ \S+\s+(\w+)\s+\[\w+\] ": the offset just past it, or -1
MatchPrefix(s) ==
    Literal(s,
        Word(s,
            Literal(s,
                SpacesAt(s,
                    Word(s,
                        SpacesAt(s,
                            NonSpaces(s,
                                Literal(s, NonSpaces(s, 0), " "))))),
                "[")),
        "] ")

\* matched.FindStringSubmatch(str): groups 2..5 (group 1 is never used)
MatchLine(s) == MatchOpNs(s, MatchPrefix(s))

(***************************************************************************)
(* Filter Extractor                                                        *)
(***************************************************************************)
\* the balanced-brace loop of Parse: the value of epos when the loop over
\* the runes of s ends (depth back to zero after the first "{", or end of s)
RECURSIVE BraceScan(_, _, _, _)
BraceScan(s, i, isFound, bpos) ==
    IF i >= Len(s) THEN Len(s)
    ELSE LET r == At(s, i)
             found2 == isFound \/ r = "{"
             bpos2 == IF ~isFound /\ r = "{" THEN bpos + 1
                      ELSE IF isFound /\ r = "{" THEN bpos + 1
                      ELSE IF isFound /\ r = "}" THEN bpos - 1
                      ELSE bpos
         IN  IF found2 /\ bpos2 = 0 THEN i + 1
             ELSE BraceScan(s, i + 1, found2, bpos2)

\* offset just past the scalar value starting at offset i: it ends at the
\* next "," or at the end of the text
RECURSIVE ScalarEnd(_, _)
ScalarEnd(s, i) ==
    IF i >= Len(s) \/ At(s, i) = "," THEN i ELSE ScalarEnd(s, i + 1)

\* the value at the head of rest: the balanced {...} document when it opens
\* with "{", else the scalar up to the next ","
ValueAt(rest) ==
    IF HasPrefix(rest, "{")
    THEN Slice(rest, 0, BraceScan(rest, 0, FALSE, 0))
    ELSE Slice(rest, 0, ScalarEnd(rest, 0))

\* getDocByField(str, key) = gox.NewMongoLog(str).Get(key): the value that
\* follows the first occurrence of key: the balanced {...} document when
\* the value opens with "{", else the scalar up to the next ","; "" when the
\* key is absent.  (gox is an imported package; this is its contract as
\* Parse and reorderFilterFields rely on it.)
getDocByField(str, key) ==
    IF Index(str, key) < 0 THEN ""
    ELSE ValueAt(TrimSpaces(From(str, Index(str, key) + Len(key))))

COLLSCAN == "COLLSCAN"

filters ==
    <<"count", "delete", "find", "remove", "update", "aggregate",
      "getMore", "getmore", "findAndModify">>

\* hasFilter with "insert" among the filters
hasFilterInsert(op) ==
    \E i \in 1..Len(filters) : filters[i] = op \/ op = "insert"

hasFilter(op) == \E i \in 1..Len(filters) : filters[i] = op

\* re `^(\w+) ({ any text })$` applied to the body of a `command` line
UnwrapCommand(filter) ==
    LET n == RunWord(filter, 0)
    IN  IF n >= 1 /\ Slice(filter, n, n + 2) = " {" /\ HasSuffix(filter, "}")
           /\ Len(filter) >= n + 3
        THEN [ok |-> TRUE, op |-> Slice(filter, 0, n),
              filter |-> From(filter, n + 1)]
        ELSE [ok |-> FALSE, op |-> "", filter |-> ""]

(***************************************************************************)
(* Canonicalizer                                                           *)
(***************************************************************************)
\* offset of the first "]" at an offset > idx, or -1
FirstCloseAfter(str, idx) ==
    LET S == {j \in (idx + 1)..(Len(str) - 1) : At(str, j) = "]"}
    IN  IF S = {} THEN -1 ELSE Min(S)

\* removeInElements: convert $in: [ ... ] to $in: [... ]
removeInElements(str, instr) ==
    LET i0 == Index(str, instr)
        idx == i0 + Len(instr) - 1
        rb == FirstCloseAfter(str, idx)
        epos == IF rb < 0 THEN -1 ELSE rb - 1
    IN  IF i0 < 0 THEN str
        ELSE IF epos = -1 THEN Slice(str, 0, idx) \o "...]"
        ELSE Slice(str, 0, idx) \o "..." \o From(str, epos)

\* the four calls of Parse
RemoveAllInElements(filter) ==
    removeInElements(
        removeInElements(
            removeInElements(
                removeInElements(filter, "$in: [ "), "$nin: [ "),
            "$in: [ "),
        "$nin: [ ")

\* number of characters of s before the first "}" (all of s if none)
CountToBrace(s) == IF Index(s, "}") < 0 THEN Len(s) ELSE Index(s, "}")

\* the `{ $regex: ` redaction of Parse
RedactRegex(filter) ==
    LET isRegex == Index(filter, "{ $regex: ")
        cnt == CountToBrace(From(filter, isRegex))
    IN  IF isRegex < 0 THEN filter
        ELSE Slice(filter, 0, isRegex + 10) \o "/.../.../"
                \o From(filter, isRegex + cnt)

\* length of the match, at offset 0 of s, of
\*   : "[^"]*" | : -?\d+(\.\d+)? | : new Date\(\d+?\) | : true | : false
\* or 0 when none of the alternatives matches there
LiteralMatchLen(s) ==
    LET c == At(s, 2)
        q == Index(From(s, 3), "\"")
        k == IF c = "-" THEN 3 ELSE 2
        n == RunDigit(s, k)
        f == RunDigit(s, k + n + 1)
        d == RunDigit(s, 11)
    IN  IF Slice(s, 0, 2) # ": " THEN 0
        ELSE IF c = "\"" THEN (IF q < 0 THEN 0 ELSE q + 4)
        ELSE IF n >= 1
             THEN (IF At(s, k + n) = "." /\ f >= 1 THEN k + n + 1 + f
                   ELSE k + n)
        ELSE IF Slice(s, 2, 11) = "new Date(" /\ d >= 1 /\ At(s, 11 + d) = ")"
             THEN 12 + d
        ELSE IF Slice(s, 2, 6) = "true" THEN 6
        ELSE IF Slice(s, 2, 7) = "false" THEN 7
        ELSE 0

\* re.ReplaceAllString(filter, ":1") for the scalar-literal pattern
RECURSIVE ReplaceLiterals(_)
ReplaceLiterals(s) ==
    IF Len(s) = 0 THEN s
    ELSE IF LiteralMatchLen(s) > 0
         THEN ":1" \o ReplaceLiterals(From(s, LiteralMatchLen(s)))
         ELSE At(s, 0) \o ReplaceLiterals(From(s, 1))

\* re `, shardVersion: \[ any text \]` replaced by "": the greedy body runs
\* to the last "]" of the text, so at most one match exists
StripShardVersion(s) ==
    LET i == Index(s, ", shardVersion: [")
        e == LastIndex(s, "]")
    IN  IF i >= 0 /\ e >= i + 17 THEN Slice(s, 0, i) \o From(s, e + 1)
        ELSE s

\* largest offset e >= lo, inside the run of non-space characters that
\* starts at offset p, at which tail occurs; -1 if none (greedy \S+ then tail)
LastInRun(s, p, lo, tail) ==
    LET hi == p + RunNonSpace(s, p) - Len(tail)
        S == {e \in lo..hi : Slice(s, e, e + Len(tail)) = tail}
    IN  IF S = {} THEN -1 ELSE Max(S)

\* length of the match, at offset 0 of s, of
\*   ( ObjectId\('\S+'\))|(UUID\("\S+"\))|( Timestamp\(\d+, \d+\))|(BinData\(\d+, \S+\))
\* or 0
IdentMatchLen(s) ==
    LET o == LastInRun(s, 11, 12, "')")
        u == LastInRun(s, 6, 7, "\")")
        t1 == RunDigit(s, 11)
        t2 == RunDigit(s, 13 + t1)
        b1 == RunDigit(s, 8)
        b == LastInRun(s, 10 + b1, 11 + b1, ")")
    IN  IF Slice(s, 0, 11) = " ObjectId('" /\ o >= 0 THEN o + 2
        ELSE IF Slice(s, 0, 6) = "UUID(\"" /\ u >= 0 THEN u + 2
        ELSE IF Slice(s, 0, 11) = " Timestamp(" /\ t1 >= 1
                /\ Slice(s, 11 + t1, 13 + t1) = ", " /\ t2 >= 1
                /\ At(s, 13 + t1 + t2) = ")"
             THEN 14 + t1 + t2
        ELSE IF Slice(s, 0, 8) = "BinData(" /\ b1 >= 1
                /\ Slice(s, 8 + b1, 10 + b1) = ", " /\ b >= 0
             THEN b + 1
        ELSE 0

\* re.ReplaceAllString(filter, "1") for the opaque-identifier pattern
RECURSIVE ReplaceIdents(_)
ReplaceIdents(s) ==
    IF Len(s) = 0 THEN s
    ELSE IF IdentMatchLen(s) > 0
         THEN "1" \o ReplaceIdents(From(s, IdentMatchLen(s)))
         ELSE At(s, 0) \o ReplaceIdents(From(s, 1))

\* the match, at offset 0 of s, of `(: \/ any text \/(.?) })`: the greedy
\* body ends at the last "/" that is followed by " }" after at most one
\* character; that character (group 2) is taken when it can be
SlashMatch(s) ==
    LET S == {t \in 3..(Len(s) - 1) :
                /\ At(s, t) = "/"
                /\ \/ (t + 1 < Len(s) /\ Slice(s, t + 2, t + 4) = " }")
                   \/ Slice(s, t + 1, t + 3) = " }"}
        t == Max(S)
        one == t + 1 < Len(s) /\ Slice(s, t + 2, t + 4) = " }"
    IN  IF Slice(s, 0, 3) # ": /" \/ S = {} THEN [len |-> 0, g2 |-> ""]
        ELSE IF one THEN [len |-> t + 4, g2 |-> At(s, t + 1)]
        ELSE [len |-> t + 3, g2 |-> ""]

\* re.ReplaceAllString(filter, ": /regex/$2}")
RECURSIVE ReplaceSlashRegex(_)
ReplaceSlashRegex(s) ==
    IF Len(s) = 0 THEN s
    ELSE IF SlashMatch(s).len > 0
         THEN ": /regex/" \o SlashMatch(s).g2 \o "}"
                \o ReplaceSlashRegex(From(s, SlashMatch(s).len))
         ELSE At(s, 0) \o ReplaceSlashRegex(From(s, 1))

\* strings.Replace(strings.Replace(filter, "{ ", "{", -1), " }", "}", -1)
NormalizeBraces(filter) == ReplaceAll(ReplaceAll(filter, "{ ", "{"), " }", "}")

\* printable ASCII in byte order (the backquote, which no text of the model
\* uses, left out): sort.Strings compares byte by byte
Ascii ==
    " !\"#$%&'()*+,-./0123456789:;<=>?@ABCDEFGHIJKLMNOPQRSTUVWXYZ[\\]^_abcdefghijklmnopqrstuvwxyz{|}~"

Ord(c) == Index(Ascii, c)

\* a < b for Go strings
RECURSIVE StrLess(_, _)
StrLess(a, b) ==
    IF Len(b) = 0 THEN FALSE
    ELSE IF Len(a) = 0 THEN TRUE
    ELSE IF At(a, 0) = At(b, 0) THEN StrLess(From(a, 1), From(b, 1))
    ELSE Ord(At(a, 0)) < Ord(At(b, 0))

\* sort.Strings on the keys of a map (no duplicates)
RECURSIVE SortStrings(_)
SortStrings(S) ==
    IF S = {} THEN <<>>
    ELSE LET k == CHOOSE x \in S : \A y \in S : x = y \/ StrLess(x, y)
         IN  <<k>> \o SortStrings(S \ {k})

\* strings.Fields
RECURSIVE Fields(_)
Fields(s) ==
    IF Len(s) = 0 THEN <<>>
    ELSE IF IsSpace(At(s, 0)) THEN Fields(From(s, RunSpace(s, 0)))
    ELSE <<Slice(s, 0, RunNonSpace(s, 0))>> \o Fields(From(s, RunNonSpace(s, 0)))

\* strings.TrimSpace
RECURSIVE TrimSpace(_)
TrimSpace(s) ==
    IF Len(s) = 0 THEN s
    ELSE IF IsSpace(At(s, 0)) THEN TrimSpace(From(s, 1))
    ELSE IF IsSpace(At(s, Len(s) - 1)) THEN TrimSpace(Slice(s, 0, Len(s) - 1))
    ELSE s

\* the name a token of strings.Fields stands for in reorderFilterFields: the
\* token without its ":" and without one leading "{"
FieldName(token) ==
    LET f == Slice(token, 0, Len(token) - 1)
    IN  IF At(f, 0) = "{" THEN From(f, 1) ELSE f

\* field[0] is read on an empty string: the Go runtime panics
FieldPanics(token) ==
    /\ HasSuffix(token, ":")
    /\ \/ Len(token) = 1
       \/ token = "{:"

\* the keys of the map m of reorderFilterFields over the spaced text
ReorderKeys(filter) ==
    {FieldName(Fields(filter)[i]) : i \in
        {j \in 1..Len(Fields(filter)) :
            /\ HasSuffix(Fields(filter)[j], ":")
            /\ At(FieldName(Fields(filter)[j]), 0) # "$"
            /\ getDocByField(filter, FieldName(Fields(filter)[j]) \o ":") # ""
            /\ Index(FieldName(Fields(filter)[j]), " ") < 0}}

\* "k1: v1, k2: v2, ..." for the sorted keys
RECURSIVE JoinFields(_, _)
JoinFields(keys, filter) ==
    IF Len(keys) = 0 THEN ""
    ELSE keys[1] \o ": " \o TrimSpace(getDocByField(filter, keys[1] \o ":"))
            \o (IF Len(keys) > 1 THEN ", " ELSE "")
            \o JoinFields(Tail(keys), filter)

\* str[1 : len(str)-1] is out of range: the Go runtime panics
ReorderPanics(str) ==
    \/ Len(str) < 2
    \/ \E i \in 1..Len(Fields(ReplaceAll(Slice(str, 1, Len(str) - 1), ":", ": "))) :
          FieldPanics(Fields(ReplaceAll(Slice(str, 1, Len(str) - 1), ":", ": "))[i])

reorderFilterFields(str) ==
    LET filter == ReplaceAll(Slice(str, 1, Len(str) - 1), ":", ": ")
    IN  "{" \o JoinFields(SortStrings(ReorderKeys(filter)), filter) \o "}"

\* lines 468-492 of Parse: the passes before the field reordering
NormalizeFilter(filter) ==
    NormalizeBraces(
        ReplaceSlashRegex(
            ReplaceIdents(
                StripShardVersion(
                    ReplaceLiterals(
                        RedactRegex(
                            RemoveAllInElements(filter)))))))

(***************************************************************************)
(* One iteration of the line loop of Parse, as a function of the line      *)
(* and of the collscan-only flag.  The result says what the iteration      *)
(* does: "nomatch" and "skip" are the `continue` paths, "panic" is a run-   *)
(* time panic inside reorderFilterFields, "agg" reaches the aggregation.   *)
(***************************************************************************)
Skip(why) ==
    [kind |-> "skip", why |-> why, op |-> "", ns |-> "", filter |-> "",
     scan |-> "", index |-> "", milli |-> 0]

\* the planSummary lookups that set `index`, given what the IXSCAN lookup
\* returned
PlanIndexOf(str, scan, ixscan) ==
    IF scan = "" /\ Index(str, "planSummary: COUNT_SCAN") >= 0
    THEN "COUNT_SCAN"
    ELSE IF ixscan # "" THEN ixscan
    ELSE IF Index(str, "planSummary: EOF") >= 0 THEN "EOF"
    ELSE IF Index(str, "planSummary: IDHACK") >= 0 THEN "IDHACK"
    ELSE ""

PlanIndex(str, scan) ==
    PlanIndexOf(str, scan, getDocByField(str, "planSummary: IXSCAN"))

\* s when it is not empty, else d
OrElse(s, d) == IF s # "" THEN s ELSE d

\* the ", group: " stage: x and y are the offsets of "$group: " and of
\* "$sort: " in the body
GroupStage(body, x, y) ==
    IF x > 0 /\ (x < y \/ y < 0)
    THEN ", group: "
            \o ReplaceAll(getDocByField(body, "$group: "), "1.0", "1")
    ELSE ""

\* the ", sort: " stage, srt being the "$sort: " document of the body
SortStage(srt) ==
    IF srt # "" THEN ", sort: " \o ReplaceAll(srt, "1.0", "1") ELSE ""

\* the aggregation-stage suffix computed when a pipeline marker is found
AggStages(body) ==
    GroupStage(body, Index(body, "$group: "), Index(body, "$sort: "))
        \o SortStage(getDocByField(body, "$sort: "))

\* first non-empty getDocByField(body, m) over the markers, else ""
RECURSIVE FirstDoc(_, _)
FirstDoc(body, markers) ==
    IF Len(markers) = 0 THEN ""
    ELSE OrElse(getDocByField(body, markers[1]),
                FirstDoc(body, Tail(markers)))

PipelineMarkers == <<"pipeline: [ { $match: ", "pipeline: [ { $sort: ">>

GetMoreMarkers ==
    <<"filter: ", "pipeline: [ { $match: ", "pipeline: [ { $sort: ">>

\* outcome of the extraction rules: the filter f with the stage suffix st
Extracted(f, st) == [skip |-> "", filter |-> f, aggStages |-> st]

\* outcome of the extraction rules: the line is skipped
NotExtracted(why) == [skip |-> why, filter |-> "", aggStages |-> ""]

\* the ", sort: " suffix of a find, so being its "sort: " document
SortSuffix(so) == IF so # "" THEN ", sort: " \o so ELSE ""

\* aggregate (and getmore with a pipeline): pd is the first pipeline
\* document found
PipelineFilter(pd, body, scan) ==
    IF pd # "" THEN Extracted(pd, AggStages(body))
    ELSE IF scan = COLLSCAN THEN Extracted("{}", "")
    ELSE NotExtracted("noPipelineStage")

\* getMore with an originatingCommand: gd is the first document found
GetMoreFilter(gd) ==
    IF gd = "" THEN NotExtracted("noOriginatingFilter") ELSE Extracted(gd, "")

\* the per-operation extraction rules: the extracted filter and the stage
\* suffix, or the reason to skip
ExtractFilter(op, filter, body, scan) ==
    IF op = "delete" /\ Index(filter, "writeConcern:") >= 0
    THEN NotExtracted("writeConcern")
    ELSE IF op = "find"
    THEN Extracted(OrElse(getDocByField(filter, "filter: "), "{ }")
                      \o SortSuffix(getDocByField(filter, "sort: ")), "")
    ELSE IF op = "count" \/ op = "distinct"
    THEN Extracted(getDocByField(filter, "query: "), "")
    ELSE IF op \in {"delete", "update", "remove", "findAndModify"}
    THEN Extracted(OrElse(IF Index(filter, "query: ") >= 0
                          THEN getDocByField(filter, "query: ")
                          ELSE getDocByField(filter, "q: "),
                          filter), "")
    ELSE IF op = "aggregate"
            \/ (op = "getmore" /\ Index(filter, "pipeline:") > 0)
    THEN PipelineFilter(FirstDoc(body, PipelineMarkers), body, scan)
    ELSE IF op = "getMore" \/ op = "getmore"
    THEN IF getDocByField(body, "originatingCommand: ") = ""
         THEN NotExtracted("noOriginatingCommand")
         ELSE GetMoreFilter(FirstDoc(body, GetMoreMarkers))
    ELSE Extracted(filter, "")

\* the key without the scan type
ShapeKeyNoScan(op, filter, scan) == op \o "." \o filter \o "."

\* the key of opsMap
ShapeKey(op, filter, scan) == op \o "." \o filter \o "." \o scan

\* result[4][:epos]: the text up to the end of the first balanced {...}
Payload(body) == Slice(body, 0, BraceScan(body, 0, FALSE, 0))

\* the text of a `command` line from which verb and payload are unwrapped
CommandText(raw) ==
    IF Index(raw, "command: ") > 0
    THEN From(raw, Index(raw, "command: ") + Len("command: "))
    ELSE raw

\* scan of Parse: COLLSCAN when the line holds that word
ScanOf(str) == IF Index(str, "COLLSCAN") >= 0 THEN COLLSCAN ELSE ""

\* lines 493-497: the canonical filter norm is reordered and the iteration
\* reaches the aggregation
ProcessNormalized(str, result, op, aggStages, norm) ==
    IF ReorderPanics(norm)
    THEN [Skip("reorderFilterFields") EXCEPT !.kind = "panic"]
    ELSE [kind |-> "agg", why |-> "", op |-> op, ns |-> result.ns,
          filter |-> reorderFilterFields(norm) \o aggStages,
          scan |-> ScanOf(str), index |-> PlanIndex(str, ScanOf(str)),
          milli |-> Atoi(result.ms)]

\* lines 384-492: ex is the outcome of the extraction rules
ProcessExtracted(str, result, op, ex) ==
    IF ex.skip # "" THEN Skip(ex.skip)
    ELSE ProcessNormalized(str, result, op, ex.aggStages,
                           NormalizeFilter(ex.filter))

\* lines 381-383: the operation op with its payload filter
ProcessOp(str, result, op, filter) ==
    IF ~hasFilter(op) THEN Skip("hasFilter")
    ELSE ProcessExtracted(str, result, op,
                          ExtractFilter(op, filter, result.body, ScanOf(str)))

\* lines 373-378: res is the outcome of unwrapping a `command` line
ProcessUnwrapped(str, result, res) ==
    IF ~res.ok THEN Skip("unwrap")
    ELSE ProcessOp(str, result, res.op, res.filter)

\* lines 366-379: raw is result[4][:epos]
ProcessPayload(str, result, raw) ==
    IF result.op = "command"
    THEN ProcessUnwrapped(str, result, UnwrapCommand(CommandText(raw)))
    ELSE ProcessOp(str, result, result.op, raw)

\* lines 332-365: result is the submatch list of a matching line
ProcessMatched(str, result, collscan) ==
    IF collscan /\ ScanOf(str) # COLLSCAN THEN Skip("collscanOnly")
    ELSE IF result.ns = "local.oplog.rs" \/ HasSuffix(result.ns, ".$cmd")
    THEN Skip("namespace")
    ELSE ProcessPayload(str, result, Payload(result.body))

ProcessLine(str, collscan) ==
    IF MatchLine(str).ok THEN ProcessMatched(str, MatchLine(str), collscan)
    ELSE [Skip("") EXCEPT !.kind = "nomatch"]

(***************************************************************************)
(* getConfigOptions: the session info harvested from the CONTROL lines     *)
(***************************************************************************)
\* json.Indent(&buf, body, "", "  ") on the text from offset i on; depth is
\* the nesting depth, inStr says whether offset i is inside a JSON string
\* and open whether the last byte written opened an object or array
RECURSIVE Spaces(_)
Spaces(n) == IF n <= 0 THEN "" ELSE "  " \o Spaces(n - 1)

RECURSIVE Indent(_, _, _, _, _)
Indent(s, i, depth, inStr, open) ==
    LET c == At(s, i)
        nl == IF open THEN "\n" \o Spaces(depth) ELSE ""
    IN  IF i >= Len(s) THEN ""
        ELSE IF inStr THEN c \o Indent(s, i + 1, depth, c # "\"", FALSE)
        ELSE IF IsSpace(c) THEN Indent(s, i + 1, depth, FALSE, open)
        ELSE IF c \in {"{", "["}
        THEN nl \o c \o Indent(s, i + 1, depth + 1, FALSE, TRUE)
        ELSE IF c \in {"}", "]"}
        THEN (IF open THEN "" ELSE "\n" \o Spaces(depth - 1))
                \o c \o Indent(s, i + 1, depth - 1, FALSE, FALSE)
        ELSE IF c = "," THEN ",\n" \o Spaces(depth)
                \o Indent(s, i + 1, depth, FALSE, FALSE)
        ELSE IF c = ":" THEN ": " \o Indent(s, i + 1, depth, FALSE, FALSE)
        ELSE nl \o c \o Indent(s, i + 1, depth, c = "\"", FALSE)

\* re `((\S+):)` replaced by "\"$1\":": every maximal run of non-space
\* characters up to its last ":" is wrapped in quotes, colon included
RECURSIVE QuoteKeys(_)
QuoteKeys(s) ==
    LET n == RunNonSpace(s, 0)
        k == LastIndex(Slice(s, 0, n), ":")
    IN  IF Len(s) = 0 THEN s
        ELSE IF n >= 2 /\ k >= 1
        THEN "\"" \o Slice(s, 0, k + 1) \o "\":" \o QuoteKeys(From(s, k + 1))
        ELSE IF n >= 1 THEN Slice(s, 0, n) \o QuoteKeys(From(s, n))
        ELSE At(s, 0) \o QuoteKeys(From(s, 1))

\* "^\S+ .? CONTROL" where n1 is the length of the first token: the offset
\* just past it, or -1
ControlTag(s, n1) ==
    IF n1 < 1 \/ At(s, n1) # " " THEN -1
    ELSE IF Slice(s, n1 + 2, n1 + 10) = " CONTROL" THEN n1 + 10
    ELSE IF Slice(s, n1 + 1, n1 + 9) = " CONTROL" THEN n1 + 9
    ELSE -1

\* "^\S+ .? CONTROL\s+\[\w+\] ": the offset just past it, or -1
ControlPrefix(s) ==
    Literal(s,
        Word(s,
            Literal(s, SpacesAt(s, ControlTag(s, RunNonSpace(s, 0))), "[")),
        "] ")

\* "(:)?" at offset k, the end of the key word
ControlKeyEnd(s, k) == IF k >= 0 /\ At(s, k) = ":" THEN k + 1 ELSE k

\* the key between offsets p4 and e4, then a space and the rest
MatchControlAt(s, p4, e4) ==
    IF p4 >= 0 /\ e4 >= 0 /\ At(s, e4) = " "
    THEN [ok |-> TRUE, key |-> Slice(s, p4, e4), rest |-> From(s, e4 + 1)]
    ELSE [ok |-> FALSE, key |-> "", rest |-> ""]

MatchControlKey(s, p4) == MatchControlAt(s, p4, ControlKeyEnd(s, Word(s, p4)))

\* re `^\S+ .? CONTROL\s+\[\w+\] (\w+(:)?) <rest>$`: groups 1 and 3
MatchControl(s) == MatchControlKey(s, ControlPrefix(s))

\* what the CONTROL match r of a line adds in front of the strs of the
\* lines after it
ConfigStrs(r, after) ==
    IF r.ok /\ r.key = "db" THEN <<"db " \o r.rest>> \o after
    ELSE IF r.ok /\ r.key = "options:"
    THEN <<"config options:", Indent(QuoteKeys(r.rest), 0, 0, FALSE, FALSE)>>
    ELSE after

\* the strs of getConfigOptions over the lines of the file
RECURSIVE getConfigOptions(_)
getConfigOptions(lines) ==
    IF Len(lines) = 0 THEN <<>>
    ELSE ConfigStrs(MatchControl(lines[1]), getConfigOptions(Tail(lines)))

\* li.mongoInfo: every string of strs followed by a newline
RECURSIVE JoinLines(_)
JoinLines(strs) ==
    IF Len(strs) = 0 THEN "" ELSE strs[1] \o "\n" \o JoinLines(Tail(strs))

(***************************************************************************)
(* Inputs: the lines a log file can hold, the CONTROL headers, file names  *)
(***************************************************************************)
\* lines that reach the aggregation
AggLines ==
    {"T I COMMAND [c1] command db.users command: find { find: \"users\", filter: { age: 30, name: \"abc\" } } planSummary: IXSCAN { age: 1 } 120ms",
     "T I COMMAND [c2] command db.people command: find { find: \"people\", filter: { name: \"zzz\", age: 55 } } planSummary: IXSCAN { name: 1 } 80ms",
     "T I COMMAND [c3] command db.users command: find { find: \"users\", filter: { age: 7, name: \"q\" } } planSummary: COLLSCAN 80ms",
     "T I COMMAND [c4] command db.orders command: aggregate { aggregate: \"orders\", pipeline: [ { $group: { _id: 1.0 } } ] } planSummary: COLLSCAN 300ms"}

\* lines the loop discards, one per `continue` of Parse
SkipLines ==
    {"T I NETWORK [l1] connection accepted from 127.0.0.1",
     "T I REPL [r1] getmore local.oplog.rs query: { ts: { $gte: 5 } } planSummary: COLLSCAN 7ms",
     "T I COMMAND [c5] command db.$cmd command: find { find: \"x\" } planSummary: COLLSCAN 9ms",
     "T I COMMAND [c6] command db.users command: isMaster planSummary: COLLSCAN 500ms",
     "T I WRITE [c7] insert db.users query: { a: 1 } planSummary: COLLSCAN 500ms",
     "T I COMMAND [c8] command db.users command: distinct { distinct: \"users\", query: { a: 1 } } planSummary: COLLSCAN 500ms",
     "T I COMMAND [c9] command db.users command: delete { delete: \"users\", q: { a: 1 }, writeConcern: { w: 1 } } planSummary: COLLSCAN 500ms",
     "T I COMMAND [c10] command db.orders command: aggregate { aggregate: \"orders\", pipeline: [ { $group: { _id: 1.0 } } ] } planSummary: IXSCAN { a: 1 } 500ms",
     "T I COMMAND [c11] command db.users command: getMore { getMore: 5, collection: \"users\" } planSummary: COLLSCAN 500ms",
     "T I COMMAND [c12] command db.users command: getMore { getMore: 5, collection: \"users\" } originatingCommand: { find: \"users\" } planSummary: COLLSCAN 500ms"}

\* a count without a query: its extracted filter is empty
PanicLines ==
    {"T I COMMAND [c13] command db.users command: count { count: \"users\" } planSummary: COLLSCAN 500ms"}

Lines == AggLines \cup SkipLines \cup PanicLines

\* the CONTROL lines of a log file
Headers ==
    {<<>>,
     <<"T I CONTROL [main] db version v4.0.5",
       "T I CONTROL [main] options: { net: { port: 27017 } }">>}

LogFiles == {"mongod.log", "mongod.log.gz"}

EncFiles == {"mongod.log.enc"}

\* the outcome of every line under both settings of collscan
LineTable == [c \in BOOLEAN |-> [l \in Lines |-> ProcessLine(l, c)]]

\* length of the longest log file of a whole Analyze run
MaxLines == 4

\* length of the longest log file of a parsing run taken alone
LongLines == 11

\* most lines of one file that the loop discards
MaxSkips == 1

\* capacity of the slow-op list
SlowOpsCap == 10

(***************************************************************************)
(* Sorting: sort.Slice is not stable.  For the slices of this model (at    *)
(* most 12 elements) the Go library runs an insertion sort, preceded in    *)
(* the releases before pdqsort by one shell pass with gap 6; both are      *)
(* modelled and a sort may produce either result.                          *)
(***************************************************************************)
\* insert x into a sequence sorted by less, moving left while less(x, prev)
RECURSIVE InsertByMilli(_, _)
InsertByMilli(sorted, x) ==
    IF Len(sorted) > 0 /\ x.Milli > sorted[Len(sorted)].Milli
    THEN Append(InsertByMilli(SubSeq(sorted, 1, Len(sorted) - 1), x),
                sorted[Len(sorted)])
    ELSE Append(sorted, x)

RECURSIVE InsertionSortMilli(_, _)
InsertionSortMilli(done, rest) ==
    IF Len(rest) = 0 THEN done
    ELSE InsertionSortMilli(InsertByMilli(done, rest[1]), Tail(rest))

\* for i := 6; i < n; i++ { if less(i, i-6) { swap(i, i-6) } }
ShellPassMilli(q) ==
    [i \in 1..Len(q) |->
        IF i + 6 <= Len(q) /\ q[i + 6].Milli > q[i].Milli THEN q[i + 6]
        ELSE IF i > 6 /\ q[i].Milli > q[i - 6].Milli THEN q[i - 6]
        ELSE q[i]]

\* the results sort.Slice(li.SlowOps, Milli descending) can produce
SortSlowOps(q) ==
    {InsertionSortMilli(<<>>, q), InsertionSortMilli(<<>>, ShellPassMilli(q))}

\* float64(a.TotalMilli)/float64(a.Count) > float64(b.TotalMilli)/float64(b.Count)
\* (counts are positive; the quotients of the model are far below 2^53, where
\* the float64 comparison agrees with the exact one)
AvgGreater(a, b) == a.TotalMilli * b.Count > b.TotalMilli * a.Count

\* all sequences that list every element of the set S exactly once
Orderings(S) ==
    {q \in [1..Cardinality(S) -> S] : \A x \in S : \E i \in DOMAIN q : q[i] = x}

\* OpsPatterns left in the order of the map iteration
SortOpsPatternsNone(m) == Orderings({m[k] : k \in DOMAIN m})

\* the results of ranging over opsMap (in any order) and sort.Slice by
\* descending average: every ordering in which no later element has a
\* greater average than an earlier one
SortOpsPatterns(m) ==
    {q \in Orderings({m[k] : k \in DOMAIN m}) :
        \A i, j \in DOMAIN q : i < j => ~AvgGreater(q[j], q[i])}

(***************************************************************************)
(* gob: only the exported fields of LogInfo are transmitted, and a field   *)
(* holding the zero value of its type is omitted from the stream           *)
(***************************************************************************)
GobEncode(l) ==
    [OpsPatterns |-> l.OpsPatterns, OutputFilename |-> l.OutputFilename,
     SlowOps |-> l.SlowOps]

\* dec.Decode(li): the transmitted fields overwrite those of li, the others
\* keep the value li had
GobDecode(l, data) ==
    [l EXCEPT !.OpsPatterns = IF data.OpsPatterns = <<>> THEN @
                              ELSE data.OpsPatterns,
              !.OutputFilename = IF data.OutputFilename = "" THEN @
                                 ELSE data.OutputFilename,
              !.SlowOps = IF data.SlowOps = <<>> THEN @ ELSE data.SlowOps]

\* the content of a file: a gob stream of an encoded LogInfo, or bytes that
\* are no gob stream
GobFile(data) == [gob |-> TRUE, data |-> data]

(***************************************************************************)
(* Report                                                                  *)
(***************************************************************************)
\* ConverOpPerformanceDocumentToLogInfoLineAnalytics; the average is kept as
\* the pair it is the quotient of
ConverOpPerformanceDocumentToLogInfoLineAnalytics(value) ==
    [Namespace |-> value.Namespace,
     Command |-> value.Command,
     QueryPattern |-> value.Filter,
     Count |-> value.Count,
     MinMilliseconds |-> 0,
     MaxMilliseconds |-> 0,
     AvgMilliseconds |-> <<value.TotalMilli, value.Count>>,
     TotalMilliseconds |-> value.TotalMilli,
     IsCollectionScan |-> (value.Scan = COLLSCAN),
     IndexUsed |-> IF value.Index # "" THEN value.Index ELSE ""]

\* printLogsSummary: the session info and the slow ops (verbose only), then
\* one record per element of OpsPatterns between the JSON brackets
printLogsSummary(l, verbose) ==
    [info |-> IF verbose THEN <<l.mongoInfo>> ELSE <<>>,
     slow |-> IF Len(l.SlowOps) > 0 /\ verbose THEN l.SlowOps ELSE <<>>,
     lines |-> [i \in 1..Len(l.OpsPatterns) |->
        ConverOpPerformanceDocumentToLogInfoLineAnalytics(l.OpsPatterns[i])]]

NoReport == [info |-> <<>>, slow |-> <<>>, lines |-> <<>>]

\* NewLogInfo
NewLogInfo(filename) ==
    [OpsPatterns |-> <<>>,
     OutputFilename |->
        (IF HasSuffix(filename, ".gz")
         THEN Slice(filename, 0, Len(filename) - 3) ELSE filename) \o ".enc",
     SlowOps |-> <<>>,
     collscan |-> FALSE,
     filename |-> filename,
     mongoInfo |-> ""]

(***************************************************************************)
(* State                                                                   *)
(***************************************************************************)
\* a file that holds no gob stream
Garbage == [gob |-> FALSE, data |-> GobEncode(NewLogInfo(""))]

VARIABLES
    pc,       \* "idle", "ready" (NewLogInfo and the setters done), "loop"
              \* (inside the line loop of Parse), "parsed" (Parse returned
              \* nil), "done" (Analyze returned), "panic" (the process died)
    li,       \* the LogInfo
    opsMap,   \* the map of Parse, from key to OpPerformanceDoc
    index,    \* the line counter of Parse
    err,      \* the error Analyze returns, "" for nil
    report,   \* the summary Analyze returns
    disk,     \* the files of the working directory, by name
    fault,    \* history: the stream-level failure of this run, "" if none
    nAgg,     \* history: number of lines of this run that were aggregated
    samples,  \* history: for every (op, filter, scan) aggregated in this
              \* run, the number, the sum and the set of its durations
    origin,   \* history: the LogInfo whose encoding was last written
    explain,  \* the run of Explain.ExecuteAllPlans
    canon     \* a run of the canonicalization passes of Parse on two filters

logVars ==
    <<pc, li, opsMap, index, err, report, disk, fault, nAgg, samples, origin>>

vars ==
    <<pc, li, opsMap, index, err, report, disk, fault, nAgg, samples, origin,
      explain, canon>>

EmptyMap == [k \in {} |-> 0]

NoOrigin == NewLogInfo("")

\* no filter given to the canonicalization passes yet.  x and y are two
\* extracted filters with their stage suffixes, cx and cy what the passes
\* make of them, and ccx what the passes make of cx; family and fields
\* (history) tell how x and y were drawn and the names x lists, ranged
\* (history) which of them hold an operator document
NoCanon ==
    [pc |-> "idle", x |-> "", xStages |-> "", y |-> "", yStages |-> "",
     cx |-> "", cy |-> "", ccx |-> "", family |-> "", fields |-> <<>>,
     ranged |-> {}]

\* ExecuteAllPlans not called yet.  pos counts the lines read, counter is
\* the counter of line 52, err the variable err of line 37 ("" for nil);
\* written lists the positions of the lines whose JSON file was written and
\* printed those whose explain error was printed; failed (history) holds
\* the positions where a collaborator failed and cause (history) says what
\* ended the loop
NoExplain ==
    [pc |-> "idle", file |-> <<>>, pos |-> 0, counter |-> 0, err |-> "",
     written |-> <<>>, printed |-> <<>>, failed |-> {}, cause |-> ""]

Init ==
    /\ pc = "idle"
    /\ li = NewLogInfo("")
    /\ opsMap = EmptyMap
    /\ index = 0
    /\ err = ""
    /\ report = NoReport
    /\ disk = EmptyMap
    /\ fault = ""
    /\ nAgg = 0
    /\ samples = EmptyMap
    /\ origin = NoOrigin
    /\ explain = NoExplain
    /\ canon = NoCanon

IsArtifact(content) == content.gob

\* NewLogInfo(filename), SetCollscan(collscan).  The model covers one
\* parsing run in a fresh directory and any number of later runs on the
\* cache artifact.
Start(filename, collscan) ==
    /\ \/ pc = "idle"
       \/ pc = "done" /\ filename \in EncFiles
    /\ pc' = "ready"
    /\ li' = [NewLogInfo(filename) EXCEPT !.collscan = collscan]
    /\ opsMap' = EmptyMap
    /\ index' = 0
    /\ err' = ""
    /\ report' = NoReport
    /\ fault' = ""
    /\ nAgg' = 0
    /\ samples' = EmptyMap
    /\ UNCHANGED <<disk, origin>>
    /\ UNCHANGED <<explain, canon>>

\* Analyze returns "", err
Fail(e) ==
    /\ pc' = "done"
    /\ err' = e
    /\ report' = NoReport

\* Analyze on a log file, up to the line loop of Parse: os.Open, the three
\* util.NewReader, util.CountLines, the two file.Seek and getConfigOptions.
\* Only the errors of os.Open and of the first and third NewReader are
\* looked at; the result of file.Seek is dropped.
ParseOpen(header, flt) ==
    /\ pc = "ready"
    /\ ~HasSuffix(li.filename, ".enc")
    /\ \/ /\ flt \in {"open", "reader"}
          /\ Fail(flt)
          /\ fault' = flt
          /\ UNCHANGED li
       \/ /\ flt \in {"", "seek"}
          /\ li' = [li EXCEPT !.mongoInfo = JoinLines(getConfigOptions(header))]
          /\ pc' = "loop"
          /\ fault' = flt
          /\ UNCHANGED <<err, report>>
    /\ UNCHANGED <<opsMap, index, disk, nAgg, samples, origin>>
    /\ UNCHANGED <<explain, canon>>

\* ConsiderSlowOp without the truncation of line 504
ConsiderSlowOpNoCap(slowOps, milli, str) ==
    IF Len(slowOps) < SlowOpsCap \/ milli > slowOps[SlowOpsCap].Milli
    THEN SortSlowOps(Append(slowOps, [Milli |-> milli, Log |-> str]))
    ELSE {slowOps}

\* ConsiderSlowOp comparing with the first (largest) entry, not the last
ConsiderSlowOpFirst(slowOps, milli, str) ==
    IF Len(slowOps) < SlowOpsCap \/ milli > slowOps[1].Milli
    THEN {IF Len(q) > SlowOpsCap THEN SubSeq(q, 1, SlowOpsCap) ELSE q :
            q \in SortSlowOps(Append(slowOps, [Milli |-> milli, Log |-> str]))}
    ELSE {slowOps}

\* lines 498-506: the slow-op list after a line of milli ms
ConsiderSlowOp(slowOps, milli, str) ==
    IF Len(slowOps) < SlowOpsCap \/ milli > slowOps[SlowOpsCap].Milli
    THEN {IF Len(q) > SlowOpsCap THEN SubSeq(q, 1, SlowOpsCap) ELSE q :
            q \in SortSlowOps(Append(slowOps, [Milli |-> milli, Log |-> str]))}
    ELSE {slowOps}

\* UpdateShape keeping the namespace first stored
UpdateShapeKeepNs(m, key, r) ==
    IF key \in DOMAIN m
    THEN [m EXCEPT ![key] =
            [Command |-> m[key].Command,
             Namespace |-> m[key].Namespace,
             Filter |-> m[key].Filter,
             MaxMilli |-> IF r.milli > m[key].MaxMilli THEN r.milli
                          ELSE m[key].MaxMilli,
             TotalMilli |-> m[key].TotalMilli + r.milli,
             Count |-> m[key].Count + 1,
             Scan |-> r.scan,
             Index |-> r.index]]
    ELSE (key :> [Command |-> r.op, Namespace |-> r.ns, Filter |-> r.filter,
                  TotalMilli |-> r.milli, MaxMilli |-> r.milli, Count |-> 1,
                  Scan |-> r.scan, Index |-> r.index]) @@ m

\* lines 508-518: the map after a line with this key
UpdateShape(m, key, r) ==
    IF key \in DOMAIN m
    THEN [m EXCEPT ![key] =
            [Command |-> m[key].Command,
             Namespace |-> r.ns,
             Filter |-> m[key].Filter,
             MaxMilli |-> IF r.milli > m[key].MaxMilli THEN r.milli
                          ELSE m[key].MaxMilli,
             TotalMilli |-> m[key].TotalMilli + r.milli,
             Count |-> m[key].Count + 1,
             Scan |-> r.scan,
             Index |-> r.index]]
    ELSE (key :> [Command |-> r.op, Namespace |-> r.ns, Filter |-> r.filter,
                  TotalMilli |-> r.milli, MaxMilli |-> r.milli, Count |-> 1,
                  Scan |-> r.scan, Index |-> r.index]) @@ m

\* history of the durations aggregated under the triple t
Record(h, t, milli) ==
    IF t \in DOMAIN h
    THEN [h EXCEPT ![t] = [count |-> @.count + 1, total |-> @.total + milli,
                           seen |-> @.seen \cup {milli}]]
    ELSE (t :> [count |-> 1, total |-> milli, seen |-> {milli}]) @@ h

\* one iteration of the line loop on the line str, in a file of at most
\* maxLines lines; r is what the iteration does with the line
Iteration(r, str, maxLines) ==
    /\ pc = "loop"
    /\ index < maxLines
    /\ r.kind # "agg" => index - nAgg < MaxSkips
    /\ index' = index + 1
    /\ \/ /\ r.kind \in {"nomatch", "skip"}
          /\ UNCHANGED <<pc, li, opsMap, nAgg, samples>>
       \/ /\ r.kind = "panic"
          /\ pc' = "panic"
          /\ UNCHANGED <<li, opsMap, nAgg, samples>>
       \/ /\ r.kind = "agg"
          /\ \E q \in ConsiderSlowOp(li.SlowOps, r.milli, str) :
                li' = [li EXCEPT !.SlowOps = q]
          /\ opsMap' = UpdateShape(opsMap, ShapeKey(r.op, r.filter, r.scan), r)
          /\ nAgg' = nAgg + 1
          /\ samples' = Record(samples, <<r.op, r.filter, r.scan>>, r.milli)
          /\ UNCHANGED pc
    /\ UNCHANGED <<err, report, disk, fault, origin>>
    /\ UNCHANGED <<explain, canon>>

ReadLineOf(str, maxLines) ==
    Iteration(LineTable[li.collscan][str], str, maxLines)

ReadLine(str) == ReadLineOf(str, MaxLines)

ReadLongLine(str) == ReadLineOf(str, LongLines)

\* reader.ReadLine returns an error, io.EOF or any other: the loop breaks,
\* lines 522-532 build OpsPatterns and Parse returns nil
ParseReturn(e) ==
    /\ pc = "loop"
    /\ \E q \in SortOpsPatterns(opsMap) : li' = [li EXCEPT !.OpsPatterns = q]
    /\ pc' = "parsed"
    /\ fault' = IF e = "EOF" THEN fault ELSE "read"
    /\ UNCHANGED <<opsMap, index, err, report, disk, nAgg, samples, origin>>
    /\ UNCHANGED <<explain, canon>>

\* Analyze after Parse returned nil: gob-encode li, write the artifact,
\* return the summary
AnalyzeFinish(verbose) ==
    /\ pc = "parsed"
    /\ disk' = (li.OutputFilename :> GobFile(GobEncode(li))) @@ disk
    /\ origin' = li
    /\ report' = printLogsSummary(li, verbose)
    /\ pc' = "done"
    /\ UNCHANGED <<li, opsMap, index, err, fault, nAgg, samples>>
    /\ UNCHANGED <<explain, canon>>

\* AnalyzeEnc falling back to Parse when the artifact cannot be used
AnalyzeEncFallback(verbose) ==
    /\ pc = "ready"
    /\ HasSuffix(li.filename, ".enc")
    /\ \/ /\ \/ li.filename \notin DOMAIN disk
             \/ li.filename \in DOMAIN disk /\ ~IsArtifact(disk[li.filename])
          /\ pc' = "loop"
          /\ UNCHANGED <<li, err, report>>
       \/ /\ li.filename \in DOMAIN disk
          /\ IsArtifact(disk[li.filename])
          /\ li' = [GobDecode(li, disk[li.filename].data) EXCEPT !.OutputFilename = ""]
          /\ report' = printLogsSummary(li', verbose)
          /\ pc' = "done"
          /\ UNCHANGED err
    /\ UNCHANGED <<opsMap, index, disk, fault, nAgg, samples, origin>>
    /\ UNCHANGED <<explain, canon>>

\* Analyze on a file named *.enc
AnalyzeEnc(verbose) ==
    /\ pc = "ready"
    /\ HasSuffix(li.filename, ".enc")
    /\ \/ /\ li.filename \notin DOMAIN disk
          /\ Fail("read")
          /\ UNCHANGED li
       \/ /\ li.filename \in DOMAIN disk
          /\ ~IsArtifact(disk[li.filename])
          /\ Fail("decode")
          /\ UNCHANGED li
       \/ /\ li.filename \in DOMAIN disk
          /\ IsArtifact(disk[li.filename])
          /\ li' = [GobDecode(li, disk[li.filename].data) EXCEPT !.OutputFilename = ""]
          /\ report' = printLogsSummary(li', verbose)
          /\ pc' = "done"
          /\ UNCHANGED err
    /\ UNCHANGED <<opsMap, index, disk, fault, nAgg, samples, origin>>
    /\ UNCHANGED <<explain, canon>>

\* the artifact is damaged between two runs
Corrupt(name) ==
    /\ pc = "done"
    /\ name \in DOMAIN disk
    /\ IsArtifact(disk[name])
    /\ disk' = [disk EXCEPT ![name] = Garbage]
    /\ UNCHANGED <<pc, li, opsMap, index, err, report, fault, nAgg, samples, origin>>
    /\ UNCHANGED <<explain, canon>>

Next ==
    \/ \E f \in LogFiles \cup EncFiles, c \in BOOLEAN : Start(f, c)
    \/ \E h \in Headers, flt \in {"", "open", "reader", "seek"} : ParseOpen(h, flt)
    \/ \E str \in Lines : ReadLine(str)
    \/ \E e \in {"EOF", "read"} : ParseReturn(e)
    \/ \E v \in BOOLEAN : AnalyzeFinish(v)
    \/ \E v \in BOOLEAN : AnalyzeEnc(v)
    \/ \E name \in EncFiles : Corrupt(name)

Spec == Init /\ [][Next]_vars

\* one parsing run over a long file, without stream failures
NextParse ==
    \/ \E c \in BOOLEAN : Start("mongod.log", c)
    \/ ParseOpen(<<>>, "")
    \/ \E str \in Lines : ReadLongLine(str)
    \/ ParseReturn("EOF")

SpecParse == Init /\ [][NextParse]_vars

(***************************************************************************)
(* Explain.ExecuteAllPlans, src/mdb/explain.go                             *)
(***************************************************************************)
\* length of the longest file given to ExecuteAllPlans
MaxPlanLines == 3

\* lines of such a file: text is the line, shape tells whether the
\* collaborator ReadQueryShape accepts it and ns is the namespace it reads
PlanLines ==
    {[text |-> "T I NETWORK [l1] connection accepted from 127.0.0.1",
      shape |-> FALSE, ns |-> ""],
     [text |-> "T I COMMAND [c6] command db.users command: isMaster planSummary: COLLSCAN 500ms",
      shape |-> FALSE, ns |-> ""],
     [text |-> "T I COMMAND [c1] command db.users command: find { find: \"users\", filter: { age: 30, name: \"abc\" } } planSummary: IXSCAN { age: 1 } 120ms",
      shape |-> TRUE, ns |-> "db.users"]}

PlanFiles ==
    UNION {[1..n -> PlanLines] : n \in 0..MaxPlanLines}

\* lines 40-52: the file and the reader are opened, counter starts at 0
ExplainOpen(file, flt) ==
    /\ explain.pc = "idle"
    /\ explain' =
           IF flt # ""
           THEN [explain EXCEPT !.pc = "done", !.file = file, !.err = flt,
                                !.cause = flt]
           ELSE [explain EXCEPT !.pc = "loop", !.file = file]
    /\ UNCHANGED <<logVars, canon>>

\* lines 54-56: ReadLine fails (io.EOF at the end of the file) and the loop
\* is left; line 106 returns what err holds
ExplainBreak(e) ==
    /\ explain.pc = "loop"
    /\ (e = "EOF") <=> (explain.pos = Len(explain.file))
    /\ explain' = [explain EXCEPT !.pc = "done", !.cause = e]
    /\ UNCHANGED <<logVars, canon>>

\* lines 100-103: the document of the line at position p is written; a
\* failure of OutputGzipped is returned
ExplainOutput(x, p, writeOk) ==
    IF writeOk
    THEN [x EXCEPT !.err = "", !.written = Append(@, p)]
    ELSE [x EXCEPT !.pc = "done", !.err = "write", !.cause = "write"]

\* lines 72-99: an error of qe.Explain is printed and the loop goes on to
\* build the document; counter is incremented
ExplainShape(x, p, explainOk, writeOk) ==
    ExplainOutput(
        IF explainOk
        THEN [x EXCEPT !.counter = @ + 1]
        ELSE [x EXCEPT !.counter = @ + 1, !.err = "explain",
                       !.printed = Append(@, p), !.failed = @ \cup {p}],
        p, writeOk)

\* lines 65-71: the database name is cut from the namespace (a namespace
\* without "." makes the slice panic); an error of GetCardinalityArray is
\* returned
ExplainCardinality(x, p, cardOk, explainOk, writeOk) ==
    IF Index(x.file[p].ns, ".") < 0
    THEN [x EXCEPT !.pc = "done", !.cause = "panic"]
    ELSE IF ~cardOk
    THEN [x EXCEPT !.pc = "done", !.err = "cardinality",
                   !.cause = "cardinality", !.failed = @ \cup {p}]
    ELSE ExplainShape(x, p, explainOk, writeOk)

\* lines 53-105: one iteration of the loop over the line at position p
ExplainIteration(x, p, cardOk, explainOk, writeOk) ==
    IF ~HasSuffix(x.file[p].text, "ms")
    THEN [x EXCEPT !.pos = p]
    ELSE IF ~x.file[p].shape
    THEN [x EXCEPT !.pos = p, !.err = "shape"]
    ELSE ExplainCardinality([x EXCEPT !.pos = p, !.err = ""], p,
                            cardOk, explainOk, writeOk)

ExplainLine(cardOk, explainOk, writeOk) ==
    /\ explain.pc = "loop"
    /\ explain.pos < Len(explain.file)
    /\ explain' = ExplainIteration(explain, explain.pos + 1,
                                   cardOk, explainOk, writeOk)
    /\ UNCHANGED <<logVars, canon>>

NextExplain ==
    \/ \E file \in PlanFiles, flt \in {"", "open", "reader"} :
           ExplainOpen(file, flt)
    \/ \E cardOk \in BOOLEAN, explainOk \in BOOLEAN, writeOk \in BOOLEAN :
           ExplainLine(cardOk, explainOk, writeOk)
    \/ \E e \in {"EOF", "read"} : ExplainBreak(e)

SpecExplain == Init /\ [][NextExplain]_vars

(***************************************************************************)
(* A parsing run over count and distinct lines                             *)
(***************************************************************************)
\* count and distinct lines, with and without a query: sub-field
CountLines ==
    {"T I COMMAND [c14] command db.users command: count { count: \"users\", query: { b: 2, a: { $gt: 5 } } } planSummary: COLLSCAN 500ms",
     "T I COMMAND [c15] command db.users command: count { count: \"users\", query: { a: 1 } } planSummary: IXSCAN { a: 1 } 40ms",
     "T I COMMAND [c17] command db.users command: count { count: \"users\", query: { a: { $in: [ 1, 2 ] } } } planSummary: COLLSCAN 7ms",
     "T I COMMAND [c13] command db.users command: count { count: \"users\" } planSummary: COLLSCAN 500ms",
     "T I COMMAND [c8] command db.users command: distinct { distinct: \"users\", query: { a: 1 } } planSummary: COLLSCAN 500ms",
     "T I COMMAND [c16] command db.users command: distinct { distinct: \"users\", key: \"a\" } planSummary: COLLSCAN 90ms"}

\* the outcome of every such line under both settings of collscan
CountTable == [c \in BOOLEAN |-> [l \in CountLines |-> ProcessLine(l, c)]]

ReadCountLine(str) ==
    Iteration(CountTable[li.collscan][str], str, MaxLines)

NextCount ==
    \/ \E c \in BOOLEAN : Start("mongod.log", c)
    \/ ParseOpen(<<>>, "")
    \/ \E str \in CountLines : ReadCountLine(str)
    \/ ParseReturn("EOF")

SpecCount == Init /\ [][NextCount]_vars

(***************************************************************************)
(* The canonicalization passes of Parse, lines 468-494, taken alone        *)
(***************************************************************************)
\* lines 468-494 on an extracted filter and its stage suffix; "panic" is
\* the run-time panic of reorderFilterFields
Canonicalize(filter, aggStages) ==
    IF ReorderPanics(NormalizeFilter(filter)) THEN "panic"
    ELSE reorderFilterFields(NormalizeFilter(filter)) \o aggStages

\* largest number of $in and $nin clauses of a filter
MaxClauses == 3

\* largest number of elements of an $in or $nin array
MaxElems == 2

\* the name of the i-th field of a filter of enumerations
ClauseName(i) == SubSeq("abcdefghijklmnopqrstuvwxyz", i, i)

\* n elements v, v + 1, ... as mongod logs them
RECURSIVE Elems(_, _)
Elems(n, v) ==
    IF n = 0 THEN ""
    ELSE SubSeq("0123456789", (v % 10) + 1, (v % 10) + 1)
            \o (IF n > 1 THEN ", " ELSE "") \o Elems(n - 1, v + 1)

\* an array of n elements
EnumArray(n, v) == IF n = 0 THEN "[ ]" ELSE "[ " \o Elems(n, v) \o " ]"

\* the fields i.. of a filter whose fields hold the enumerations ops, all of
\* n elements
RECURSIVE EnumFields(_, _, _, _)
EnumFields(ops, i, n, v) ==
    IF i > Len(ops) THEN ""
    ELSE ClauseName(i) \o ": { " \o ops[i] \o ": " \o EnumArray(n, v) \o " }"
            \o (IF i < Len(ops) THEN ", " ELSE "")
            \o EnumFields(ops, i + 1, n, v)

EnumFilter(ops, n, v) == "{ " \o EnumFields(ops, 1, n, v) \o " }"

\* top-level field names; "e:" ends "age:" and "name:" too
FieldNames == {"age", "e", "name"}

\* the scalar literals of a filter: number, string, boolean, date
ScalarLiterals ==
    <<"5", "\"x\"", "true", "new Date(1500000000000)", "-2.5">>

\* the places of ScalarLiterals at which a filter starts taking its values
ScalarShifts == {0, 1}

\* the orders in which the names of S can be listed
Orders(S) ==
    {q \in [1..Cardinality(S) -> S] :
        \A i, j \in 1..Cardinality(S) : q[i] = q[j] => i = j}

FieldOrders == UNION {Orders(S) : S \in SUBSET FieldNames \ {{}}}

\* the value of the field name: the scalar literal lit, or a $gt document
FieldValue(name, lit, ranged) ==
    IF name \in ranged THEN "{ $gt: " \o lit \o " }" ELSE lit

\* the fields i.. of a filter listing the names q, with scalar literals
\* taken from ScalarLiterals from the place shift on
RECURSIVE ScalarFields(_, _, _, _)
ScalarFields(q, i, shift, ranged) ==
    IF i > Len(q) THEN ""
    ELSE q[i] \o ": "
            \o FieldValue(q[i],
                   ScalarLiterals[((i + shift - 1) % Len(ScalarLiterals)) + 1],
                   ranged)
            \o (IF i < Len(q) THEN ", " ELSE "")
            \o ScalarFields(q, i + 1, shift, ranged)

ScalarFilter(q, shift, ranged) ==
    "{ " \o ScalarFields(q, 1, shift, ranged) \o " }"

\* extracted filters with their stage suffixes, as the extraction rules
\* leave them: plain, with an enumeration, a find with a sort, aggregates
\* with a $sort and with a $group stage
CanonInputs ==
    {[filter |-> "{ age: 30, name: \"abc\" }", aggStages |-> ""],
     [filter |-> "{ }", aggStages |-> ""],
     [filter |-> "{ a: { $gt: 5 }, b: /^x/ }", aggStages |-> ""],
     [filter |-> "{ a: { $in: [ 1, 2 ] } }", aggStages |-> ""],
     [filter |-> "{ a: 1 }, sort: { ts: -1 }", aggStages |-> ""],
     [filter |-> "{ status: \"A\" }", aggStages |-> ", sort: { ts: -1 }"],
     [filter |-> "{ status: \"A\" }", aggStages |-> ", group: { _id: 1 }"]}

\* two filters that differ in the number and values of the elements of
\* their enumerations only
PickEnum(ops, n1, n2) ==
    /\ canon.pc = "idle"
    /\ canon' = [NoCanon EXCEPT !.pc = "picked", !.family = "enum",
                                !.x = EnumFilter(ops, n1, 1),
                                !.y = EnumFilter(ops, n2, 5)]
    /\ UNCHANGED <<logVars, explain>>

\* two filters that list the same names in the orders q1 and q2; the names
\* of ranged (none or one of them) hold an operator document in both
PickOrder(q1, q2, s1, s2, ranged) ==
    /\ canon.pc = "idle"
    /\ {q1[i] : i \in DOMAIN q1} = {q2[i] : i \in DOMAIN q2}
    /\ ranged \subseteq {q1[i] : i \in DOMAIN q1}
    /\ canon' = [NoCanon EXCEPT !.pc = "picked", !.family = "order",
                                !.fields = q1, !.ranged = ranged,
                                !.x = ScalarFilter(q1, s1, ranged),
                                !.y = ScalarFilter(q2, s2, ranged)]
    /\ UNCHANGED <<logVars, explain>>

\* one extracted filter
PickFilter(inp) ==
    /\ canon.pc = "idle"
    /\ canon' = [NoCanon EXCEPT !.pc = "picked", !.family = "filter",
                                !.x = inp.filter, !.xStages = inp.aggStages,
                                !.y = inp.filter, !.yStages = inp.aggStages]
    /\ UNCHANGED <<logVars, explain>>

\* lines 468-494 on both filters
CanonApply ==
    /\ canon.pc = "picked"
    /\ canon' = [canon EXCEPT !.pc = "done",
                              !.cx = Canonicalize(canon.x, canon.xStages),
                              !.cy = Canonicalize(canon.y, canon.yStages)]
    /\ UNCHANGED <<logVars, explain>>

\* lines 468-494 on the canonical filter of x, which carries its stages
CanonAgain ==
    /\ canon.pc = "done"
    /\ canon.cx # "panic"
    /\ canon' = [canon EXCEPT !.pc = "again",
                              !.ccx = Canonicalize(canon.cx, "")]
    /\ UNCHANGED <<logVars, explain>>

NextCanon ==
    \/ \E k \in 1..MaxClauses :
          \E ops \in [1..k -> {"$in", "$nin"}],
             n1 \in 0..MaxElems, n2 \in 0..MaxElems :
              PickEnum(ops, n1, n2)
    \/ \E q1 \in FieldOrders, q2 \in FieldOrders,
          s1 \in ScalarShifts, s2 \in ScalarShifts,
          ranged \in {{}} \cup {{n} : n \in FieldNames} :
           PickOrder(q1, q2, s1, s2, ranged)
    \/ \E inp \in CanonInputs : PickFilter(inp)
    \/ CanonApply
    \/ CanonAgain

SpecCanon == Init /\ [][NextCanon]_vars

(***************************************************************************)
(* Properties                                                              *)
(***************************************************************************)
Range(q) == {q[i] : i \in DOMAIN q}

Occurs(q, e) == Cardinality({i \in DOMAIN q : q[i] = e})

MinMilli(q) == Min({q[i].Milli : i \in DOMAIN q})

\* C1: at every point of the line loop and after it, the slow-op list holds
\* at most 10 entries and is ordered by non-increasing Milli.
C1_SlowOpsCappedSorted ==
    /\ Len(li.SlowOps) <= 10
    /\ \A i \in 1..(Len(li.SlowOps) - 1) :
          li.SlowOps[i].Milli >= li.SlowOps[i + 1].Milli

\* the loop is past its eleventh aggregated line, the list is full and holds
\* different durations
C1_Witness ==
    /\ pc = "loop"
    /\ nAgg > 10
    /\ Len(li.SlowOps) = 10
    /\ li.SlowOps[1].Milli > li.SlowOps[10].Milli

\* post is pre with the entry e added
Inserted(pre, post, e) ==
    /\ Len(post) = Len(pre) + 1
    /\ \A x \in Range(pre) \cup {e} :
          Occurs(post, x) = Occurs(pre, x) + (IF x = e THEN 1 ELSE 0)

\* post is pre with the entry e added and one entry of smallest Milli removed
Replaced(pre, post, e) ==
    /\ Len(post) = Len(pre)
    /\ \E v \in Range(pre) :
          /\ v.Milli = MinMilli(pre)
          /\ \A x \in Range(pre) \cup {e} :
                Occurs(post, x) = Occurs(pre, x) + (IF x = e THEN 1 ELSE 0)
                                    - (IF x = v THEN 1 ELSE 0)

Admission(pre, post, e) ==
    IF Len(pre) < 10 THEN Inserted(pre, post, e)
    ELSE IF e.Milli > MinMilli(pre) THEN Replaced(pre, post, e)
    ELSE post = pre

\* C2: every aggregated line is inserted while the list holds fewer than 10
\* entries; at 10 entries it is inserted only if its millis is strictly
\* greater than the smallest millis held, and then an entry of smallest
\* millis is the one removed; otherwise the list is left unchanged.
C2_SlowOpAdmission ==
    [][\A str \in Lines :
          (LineTable[li.collscan][str].kind = "agg" /\ ReadLongLine(str))
          => Admission(li.SlowOps, li'.SlowOps,
                       [Milli |-> LineTable[li.collscan][str].milli,
                        Log |-> str])]_vars

\* the list is full, an 80 ms line was aggregated and no entry of 80 ms is
\* left: the smallest entries have been replaced
C2_Witness ==
    /\ pc = "loop"
    /\ Len(li.SlowOps) = 10
    /\ \E t \in DOMAIN samples : 80 \in samples[t].seen
    /\ \A i \in DOMAIN li.SlowOps : li.SlowOps[i].Milli > 80

ShapeUpdate(m, m2, key, r) ==
    /\ DOMAIN m2 = DOMAIN m \cup {key}
    /\ \A k \in DOMAIN m \ {key} : m2[k] = m[k]
    /\ key \notin DOMAIN m =>
          /\ m2[key].Count = 1
          /\ m2[key].TotalMilli = r.milli
          /\ m2[key].MaxMilli = r.milli
    /\ key \in DOMAIN m =>
          /\ m2[key].Count = m[key].Count + 1
          /\ m2[key].TotalMilli = m[key].TotalMilli + r.milli
          /\ m2[key].MaxMilli = Max({m[key].MaxMilli, r.milli})
          /\ m2[key].Namespace = r.ns
          /\ m2[key].Index = r.index
          /\ m2[key].Command = m[key].Command
          /\ m2[key].Filter = m[key].Filter

\* C3: the update of a line creates the entry of a new key with Count 1 and
\* TotalMilli = MaxMilli = millis; for a key already present it adds 1 to
\* Count and millis to TotalMilli, raises MaxMilli to the maximum, overwrites
\* Namespace and Index with the line's and keeps Command and Filter; the
\* entries of all other keys are unchanged and no entry is removed.
C3_ShapeUpdate ==
    [][/\ \A str \in Lines :
            (LineTable[li.collscan][str].kind = "agg" /\ ReadLine(str))
            => ShapeUpdate(opsMap, opsMap',
                           ShapeKey(LineTable[li.collscan][str].op,
                                    LineTable[li.collscan][str].filter,
                                    LineTable[li.collscan][str].scan),
                           LineTable[li.collscan][str])
       /\ pc = "loop" => DOMAIN opsMap \subseteq DOMAIN opsMap']_vars

\* an entry updated at least once whose namespace and index are those of the
\* 80 ms line while its maximum is that of the 120 ms line
C3_Witness ==
    \E k \in DOMAIN opsMap :
        /\ opsMap[k].Count >= 2
        /\ opsMap[k].Namespace = "db.people"
        /\ opsMap[k].Index = "{ name: 1 }"
        /\ opsMap[k].MaxMilli = 120

\* C4: for every (operation, canonical filter, scan type) aggregated so far
\* the entry under its key has the number of its lines as Count, the sum of
\* their durations as TotalMilli and a MaxMilli not below any of them, and
\* different triples are never folded into one entry.
C4_ShapeCounts ==
    pc \in {"loop", "parsed"} =>
        /\ \A t \in DOMAIN samples :
              LET k == ShapeKey(t[1], t[2], t[3])
              IN  /\ k \in DOMAIN opsMap
                  /\ opsMap[k].Count = samples[t].count
                  /\ opsMap[k].TotalMilli = samples[t].total
                  /\ \A d \in samples[t].seen : opsMap[k].MaxMilli >= d
        /\ Cardinality(DOMAIN opsMap) = Cardinality(DOMAIN samples)

\* two shapes that differ in the scan type only, one of them with two lines
C4_Witness ==
    /\ pc = "loop"
    /\ \E t, u \in DOMAIN samples :
          /\ t[1] = u[1] /\ t[2] = u[2] /\ t[3] # u[3]
          /\ samples[t].count >= 2
          /\ Cardinality(samples[t].seen) >= 2

\* the operation verbs the extraction has a rule for
RuleVerbs ==
    {"find", "count", "distinct", "delete", "update", "remove",
     "findAndModify", "aggregate", "getmore", "getMore"}

\* the line is one of the discards the claim lists
ListedDiscard(str, collscan) ==
    LET m == MatchLine(str)
        un == UnwrapCommand(CommandText(Payload(m.body)))
        verb == IF m.op = "command" THEN un.op ELSE m.op
        filter == IF m.op = "command" THEN un.filter ELSE Payload(m.body)
    IN  \/ ~m.ok
        \/ collscan /\ Index(str, "COLLSCAN") < 0
        \/ m.ns = "local.oplog.rs"
        \/ HasSuffix(m.ns, ".$cmd")
        \/ m.op = "command" /\ ~un.ok
        \/ verb \notin RuleVerbs
        \/ verb = "delete" /\ Index(filter, "writeConcern:") >= 0
        \/ /\ verb = "aggregate"
           /\ Index(m.body, "$match: ") < 0
           /\ Index(m.body, "$sort: ") < 0
           /\ Index(str, "COLLSCAN") < 0
        \/ /\ verb \in {"getMore", "getmore"}
           /\ Index(filter, "pipeline:") < 0
           /\ Index(m.body, "originatingCommand: ") < 0

\* ListedDiscard for every line under both settings of collscan
DiscardTable == [c \in BOOLEAN |-> [l \in Lines |-> ListedDiscard(l, c)]]

\* C5: a line that does not match the operation-record pattern, or that the
\* extraction skips for one of the listed reasons, leaves the shape map and
\* the slow-op list unchanged, and the loop goes on with the next line.
C5_DiscardsLeaveStatistics ==
    [][\A str \in Lines :
          (DiscardTable[li.collscan][str] /\ ReadLine(str))
          => /\ opsMap' = opsMap
             /\ li'.SlowOps = li.SlowOps
             /\ pc' = "loop"
             /\ index' = index + 1]_vars

\* a line was discarded after a line was aggregated, and the loop goes on
C5_Witness ==
    /\ pc = "loop"
    /\ index > nAgg
    /\ nAgg >= 1
    /\ Len(li.SlowOps) = nAgg

\* C6: a failure to open the input, to reset its position or to read a line
\* (other than end of stream) makes Parse and Analyze return that error;
\* Parse returns nil only when the end of the stream is reached normally.
C6_StreamFailureSurfaced ==
    /\ pc = "parsed" => fault = ""
    /\ (pc = "done" /\ fault # "") => err = fault

\* C7: the LogInfo decoded from the artifact equals, field for field, the
\* parse result it was written from: shape statistics, slow ops, session info.
C7_CacheRoundTrip ==
    (pc = "done" /\ HasSuffix(li.filename, ".enc") /\ err = "")
    => /\ li.OpsPatterns = origin.OpsPatterns
       /\ li.SlowOps = origin.SlowOps
       /\ li.mongoInfo = origin.mongoInfo

EncRun == HasSuffix(li.filename, ".enc")

\* the file name holds an artifact in disk d2 that d1 does not hold
Written(d1, d2, name) ==
    /\ name \in DOMAIN d2
    /\ IsArtifact(d2[name])
    /\ name \notin DOMAIN d1 \/ d1[name] # d2[name]

\* a run on an .enc file never enters Parse, and a failed one has no report
EncRunState ==
    EncRun => /\ pc \in {"ready", "done"}
              /\ index = 0
              /\ opsMap = EmptyMap
              /\ err # "" => report = NoReport /\ li.OpsPatterns = <<>>

\* C8: a run on an .enc file decodes the artifact, never runs Parse and
\* never writes an artifact; if the artifact cannot be read or decoded the
\* run returns that error with an empty report.  On any other input an
\* artifact is written only after Parse has returned nil.
C8_CacheLoadSkipsParse ==
    [][/\ EncRunState
       /\ EncRunState'
       /\ (EncRun /\ pc = "ready" /\ li.filename \notin DOMAIN disk)
            => pc' = "done" /\ err' = "read"
       /\ (EncRun /\ pc = "ready" /\ li.filename \in DOMAIN disk
            /\ ~IsArtifact(disk[li.filename]))
            => pc' = "done" /\ err' = "decode"
       /\ \A name \in LogFiles \cup EncFiles \cup {li.OutputFilename} :
            Written(disk, disk', name)
            => ~EncRun /\ pc = "parsed" /\ err = ""]_vars

\* a run on a damaged artifact ended with the decode error and no report
C8_Witness ==
    /\ pc = "done"
    /\ EncRun
    /\ err = "decode"
    /\ report = NoReport
    /\ Len(origin.OpsPatterns) > 0

\* C9: every rendered record carries the statistics of its shape: count,
\* total, maximum and minimum duration, namespace, command, query pattern,
\* index used, and the collection-scan flag.
C9_ReportProjection ==
    (pc = "done" /\ ~EncRun /\ err = "")
    => /\ Len(report.lines) = Len(li.OpsPatterns)
       /\ \A i \in DOMAIN report.lines :
            LET d == li.OpsPatterns[i]
                r == report.lines[i]
            IN  /\ r.Count = d.Count
                /\ r.TotalMilliseconds = d.TotalMilli
                /\ r.MaxMilliseconds = d.MaxMilli
                /\ r.MinMilliseconds
                      = Min(samples[<<d.Command, d.Filter, d.Scan>>].seen)
                /\ r.Namespace = d.Namespace
                /\ r.Command = d.Command
                /\ r.QueryPattern = d.Filter
                /\ r.IndexUsed = d.Index
                /\ r.IsCollectionScan = (d.Scan = "COLLSCAN")

\* the shape of a rendered record
ShapeOf(r) == <<r.Command, r.QueryPattern, r.IsCollectionScan>>

\* average of a >= average of b
AvgAtLeast(a, b) ==
    a.AvgMilliseconds[1] * b.AvgMilliseconds[2]
        >= b.AvgMilliseconds[1] * a.AvgMilliseconds[2]

\* C10: the report lists exactly one record per distinct shape key, in order
\* of non-increasing average latency, after a fresh parse and after a load
\* from the cache artifact.
C10_ReportSortedOnePerShape ==
    (pc = "done" /\ err = "")
    => /\ \A i, j \in DOMAIN report.lines :
            i # j => ShapeOf(report.lines[i]) # ShapeOf(report.lines[j])
       /\ \A i \in 1..(Len(report.lines) - 1) :
            AvgAtLeast(report.lines[i], report.lines[i + 1])
       /\ ~EncRun =>
            {ShapeOf(report.lines[i]) : i \in DOMAIN report.lines}
               = {<<t[1], t[2], t[3] = "COLLSCAN">> : t \in DOMAIN samples}
       /\ EncRun =>
            {ShapeOf(report.lines[i]) : i \in DOMAIN report.lines}
               = {<<d.Command, d.Filter, d.Scan = "COLLSCAN">> :
                     d \in Range(origin.OpsPatterns)}

\* a report loaded from the artifact with three shapes of different averages
C10_Witness ==
    /\ pc = "done"
    /\ EncRun
    /\ err = ""
    /\ Len(report.lines) = 3
    /\ ~AvgAtLeast(report.lines[3], report.lines[1])

\* the line at position p of the file is one that ExecuteAllPlans handles
Qualifies(p) ==
    /\ HasSuffix(explain.file[p].text, "ms")
    /\ explain.file[p].shape

\* C11: when ExecuteAllPlans has returned and neither the reading of the
\* file nor the writing of a result failed, every qualifying line that
\* comes after a line whose cardinality or explain lookup failed has been
\* processed and its result written
C11_CollaboratorFailureContinues ==
    (explain.pc = "done" /\ explain.cause \notin {"read", "write"}) =>
        \A p \in explain.failed :
            \A q \in (p + 1)..Len(explain.file) :
                Qualifies(q) => q \in Range(explain.written)

\* what the loop of Parse knows of a line when it reaches the rule for
\* count and distinct: whether the line reaches the rule at all, its verb,
\* the query: sub-field of its body and its scan type
CountRule(str, collscan) ==
    LET m == MatchLine(str)
        un == UnwrapCommand(CommandText(Payload(m.body)))
        verb == IF m.op = "command" THEN un.op ELSE m.op
        filter == IF m.op = "command" THEN un.filter ELSE Payload(m.body)
    IN  [applies |-> /\ m.ok
                     /\ ~(collscan /\ Index(str, "COLLSCAN") < 0)
                     /\ m.ns # "local.oplog.rs"
                     /\ ~HasSuffix(m.ns, ".$cmd")
                     /\ (m.op = "command" => un.ok)
                     /\ verb \in {"count", "distinct"},
         verb |-> verb,
         query |-> getDocByField(filter, "query: "),
         scan |-> ScanOf(str)]

\* CountRule for every count and distinct line under both settings
CountRuleTable ==
    [c \in BOOLEAN |-> [l \in CountLines |-> CountRule(l, c)]]

\* the iteration aggregated a line of shape (verb, canonical form of the
\* query: sub-field q alone, scan)
AggregatedAs(verb, q, scan) ==
    /\ nAgg' = nAgg + 1
    /\ pc' = "loop"
    /\ LET t == <<verb, reorderFilterFields(NormalizeFilter(q)), scan>>
       IN  /\ t \in DOMAIN samples'
           /\ samples'[t].count =
                  IF t \in DOMAIN samples THEN samples[t].count + 1 ELSE 1

\* C12: an iteration over a count or distinct line aggregates the line
\* under the query: sub-field of its body alone when the body has one, and
\* otherwise skips it: no shape, no slow operation, and the loop goes on
\* with the next line.
C12_CountDistinctQuery ==
    [][\A str \in CountLines :
          (CountRuleTable[li.collscan][str].applies /\ ReadCountLine(str))
          => IF CountRuleTable[li.collscan][str].query # ""
             THEN AggregatedAs(CountRuleTable[li.collscan][str].verb,
                               CountRuleTable[li.collscan][str].query,
                               CountRuleTable[li.collscan][str].scan)
             ELSE /\ opsMap' = opsMap
                  /\ li'.SlowOps = li.SlowOps
                  /\ pc' = "loop"
                  /\ index' = index + 1]_vars

\* the canonicalization passes have run on the two filters of a family
Canonicalized(family) ==
    /\ canon.pc \in {"done", "again"}
    /\ canon.family = family

\* number of $in and $nin clauses of a filter
Clauses(filter) == Cardinality(Occurrences(filter, "in: [ "))

\* C13: two filters that differ only in the number and values of the
\* elements of their $in and $nin arrays, however many such clauses they
\* hold, have the same canonical filter, in which every such array has the
\* same truncated form.
C13_EnumerationLength ==
    Canonicalized("enum") =>
        /\ canon.cx = canon.cy
        /\ Cardinality(Occurrences(canon.cx, "[... ]")) = Clauses(canon.x)

\* the fields of the object that lists the names q in that order, each
\* with the placeholder of a scalar literal or with its $gt document
RECURSIVE Rebuilt(_, _)
Rebuilt(q, ranged) ==
    IF Len(q) = 0 THEN ""
    ELSE q[1] \o ": " \o (IF q[1] \in ranged THEN "{$gt: 1}" ELSE "1")
            \o (IF Len(q) > 1 THEN ", " ELSE "")
            \o Rebuilt(Tail(q), ranged)

\* the names q are in strictly ascending order
Ascending(q) == \A i \in 1..(Len(q) - 1) : StrLess(q[i], q[i + 1])

\* C14: two filters that list the same top-level field names in different
\* orders, with different scalar literals, have the same canonical filter,
\* which lists each of the names once, in ascending order.
C14_OrderInsensitive ==
    Canonicalized("order") =>
        /\ canon.cx = canon.cy
        /\ \E q \in Orders(Range(canon.fields)) :
              /\ Ascending(q)
              /\ canon.cx = "{" \o Rebuilt(q, canon.ranged) \o "}"

\* C15: the canonicalization passes applied to the canonical form of an
\* extracted filter, stage suffix included, return it unchanged.
C15_Idempotent ==
    (canon.pc = "again" /\ canon.family = "filter") => canon.ccx = canon.cx
====
